---------------------------- MODULE Spec2Model ----------------------------
(***************************************************************************)
(* A model of the polar encoder kernel volk_8u_x3_encodepolar_8u_x2:       *)
(*   log2_of_power_of_2, interleave_frozen_and_info_bits,                  *)
(*   encodepolar_single_stage, the scalar encoder (_generic) and the two   *)
(*   SSSE3 encoders (_u_ssse3, _a_ssse3).                                  *)
(* Buffers are functions from the byte offset (0-based, as in C) to the    *)
(* byte stored there.  A 32-bit unsigned int that may exceed 2^31 - 1 is   *)
(* kept as the pair <<high 16 bits, low 16 bits>>.                         *)
(***************************************************************************)
EXTENDS Integers, Sequences, FiniteSets, TLC

VARIABLES
  \* log2_of_power_of_2, one statement per step
  lk, lval, lres, lpc,
  \* interleave_frozen_and_info_bits, one loop iteration per step
  imask, ifrozen, iinfo, itarget, ibit, ifz, iinf, ioob, ipc,
  \* the encoders: the caller's remaining calls and the results so far
  plan, outs,
  \* the parameters of the call in progress (fill: what frame and temp hold on entry)
  impl, frame_size, frozen_bit_mask, frozen_bits, info_bits, fill,
  \* the buffers and the locals of the call in progress
  frame, temp, stage, frame_half, num_branches, frame_ptr, temp_ptr, branch, r_temp0,
  \* position in the function, passes completed, and the frame offsets written and
  \* temp offsets read by the current pass (by the fine tier as a whole)
  pc, passes, wlog, rlog

log2Vars == <<lk, lval, lres, lpc>>
ilvVars == <<imask, ifrozen, iinfo, itarget, ibit, ifz, iinf, ioob, ipc>>
callVars == <<plan, outs>>
paramVars == <<impl, frame_size, frozen_bit_mask, frozen_bits, info_bits, fill>>
localVars == <<frame, temp, stage, frame_half, num_branches, frame_ptr, temp_ptr,
               branch, r_temp0>>
ghostVars == <<passes, wlog, rlog>>
encVars == <<callVars, paramVars, localVars, pc, ghostVars>>
vars == <<log2Vars, ilvVars, encVars>>

---------------------------------------------------------------------------
(* Bounds of the model *)

\* interleave is explored exhaustively for every length 0..MaxLen
MaxLen == 3

\* the scalar encoder is explored for frame sizes 2^0 .. 2^MaxStage
MaxStage == 4

\* linearity is explored for frame sizes 2^1 .. 2^MaxStageLin
MaxStageLin == 3

\* the SSSE3 encoders are explored for frame sizes 2^4 .. 2^MaxStageVec
MaxStageVec == 6

---------------------------------------------------------------------------
(* Bit operations of C on non-negative integers *)

RECURSIVE BitAnd(_, _)
BitAnd(a, b) ==
  IF a = 0 \/ b = 0 THEN 0
  ELSE (IF a % 2 = 1 /\ b % 2 = 1 THEN 1 ELSE 0) + 2 * BitAnd(a \div 2, b \div 2)

RECURSIVE BitOr(_, _)
BitOr(a, b) ==
  IF a = 0 THEN b
  ELSE IF b = 0 THEN a
  ELSE (IF a % 2 = 1 \/ b % 2 = 1 THEN 1 ELSE 0) + 2 * BitOr(a \div 2, b \div 2)

RECURSIVE BitXor(_, _)
BitXor(a, b) ==
  IF a = 0 THEN b
  ELSE IF b = 0 THEN a
  ELSE ((a + b) % 2) + 2 * BitXor(a \div 2, b \div 2)

RECURSIVE Pow2(_)
Pow2(k) == IF k = 0 THEN 1 ELSE 2 * Pow2(k - 1)

\* a << n on a small unsigned value
Shl(a, n) == a * Pow2(n)

\* the C value of a comparison
BoolInt(p) == IF p THEN 1 ELSE 0

---------------------------------------------------------------------------
(* log2_of_power_of_2 *)

\* width of unsigned int
WordBits == 32
HalfBits == WordBits \div 2

\* the unsigned int 2^k, k < WordBits, as <<high half, low half>>
U32Pow2(k) == IF k < HalfBits THEN <<0, Pow2(k)>> ELSE <<Pow2(k - HalfBits), 0>>

\* a small unsigned int as <<high half, low half>>
U32(n) == <<n \div Pow2(HalfBits), n % Pow2(HalfBits)>>

\* static const unsigned int b[] = {0xAAAAAAAA, 0xCCCCCCCC, 0xF0F0F0F0, 0xFF00FF00, 0xFFFF0000}
HexAAAA == 43690
HexCCCC == 52428
HexF0F0 == 61680
HexFF00 == 65280
HexFFFF == 65535
b == [i \in 0..4 |->
       CASE i = 0 -> <<HexAAAA, HexAAAA>>
         [] i = 1 -> <<HexCCCC, HexCCCC>>
         [] i = 2 -> <<HexF0F0, HexF0F0>>
         [] i = 3 -> <<HexFF00, HexFF00>>
         [] i = 4 -> <<HexFFFF, 0>>]

\* (val & m) != 0
AndNonZero(val, m) == BitAnd(val[1], m[1]) # 0 \/ BitAnd(val[2], m[2]) # 0

\* unsigned int res = (val & b[0]) != 0;
Log2First(val) == BoolInt(AndNonZero(val, b[0]))

\* a variant that leaves out the shift: res |= ((val & b[i]) != 0);
Log2OrUnshifted(res, val, i) == BitOr(res, BoolInt(AndNonZero(val, b[i])))

\* res |= ((val & b[i]) != 0) << i;
Log2Or(res, val, i) == BitOr(res, Shl(BoolInt(AndNonZero(val, b[i])), i))

\* the order in which lines 69..72 use b[]: 4, 3, 2, 1
Log2Order == <<4, 3, 2, 1>>

log2_of_power_of_2(val) ==
  Log2Or(Log2Or(Log2Or(Log2Or(Log2First(val), val, 4), val, 3), val, 2), val, 1)

Log2Idle ==
  /\ lk = 0
  /\ lval = <<0, 0>>
  /\ lres = 0
  /\ lpc = "idle"

Log2Init ==
  /\ lk \in 0..(WordBits - 1)
  /\ lval = U32Pow2(lk)
  /\ lres = 0
  /\ lpc = "line68"

Log2Line68 ==
  /\ lpc = "line68"
  /\ lres' = Log2First(lval)
  /\ lpc' = "or1"
  /\ UNCHANGED <<lk, lval, ilvVars, encVars>>

Log2OrLine(n) ==
  /\ lpc = "or" \o ToString(n)
  /\ lres' = Log2Or(lres, lval, Log2Order[n])
  /\ lpc' = IF n = 4 THEN "return" ELSE "or" \o ToString(n + 1)
  /\ UNCHANGED <<lk, lval, ilvVars, encVars>>

Log2Return ==
  /\ lpc = "return"
  /\ lpc' = "done"
  /\ UNCHANGED <<lk, lval, lres, ilvVars, encVars>>

Log2Next ==
  \/ Log2Line68
  \/ \E n \in 1..4 : Log2OrLine(n)
  \/ Log2Return

---------------------------------------------------------------------------
(* interleave_frozen_and_info_bits *)

\* the bytes a mask cell takes: 0x00 for an info position, 0xFF (or another
\* nonzero byte) for a frozen one
MaskBytes == {0, 1, 255}
BitBytes == {0, 1}

\* buffers of length n over a set of bytes
Buffers(n, S) == [0..(n - 1) -> S]

\* number of nonzero cells of mask among positions 0..n-1
CountNonZero(mask, n) == Cardinality({i \in 0..(n - 1) : mask[i] # 0})

\* a read of src[i] where src holds len cells: a read past the end yields an
\* unspecified byte and is recorded
ReadByte(src, len, i) == IF i < len THEN src[i] ELSE 0

\* a variant that advances both streams at every position
InterleaveStepBoth(st, mask, frozen, flen, info, klen) ==
  [target |-> [st.target EXCEPT ![st.bit] =
                 IF mask[st.bit] # 0 THEN ReadByte(frozen, flen, st.fz)
                                     ELSE ReadByte(info, klen, st.inf)],
   bit |-> st.bit + 1, fz |-> st.fz + 1, inf |-> st.inf + 1,
   oob |-> st.oob \/ (IF mask[st.bit] # 0 THEN st.fz >= flen ELSE st.inf >= klen)]

\* one iteration of the loop at lines 82..84 on
\*   st = [target, bit, fz, inf, oob]
\* fz and inf are the distances frozen_bits and info_bits have advanced
InterleaveStep(st, mask, frozen, flen, info, klen) ==
  IF mask[st.bit] # 0
  THEN [target |-> [st.target EXCEPT ![st.bit] = ReadByte(frozen, flen, st.fz)],
        bit |-> st.bit + 1, fz |-> st.fz + 1, inf |-> st.inf,
        oob |-> st.oob \/ st.fz >= flen]
  ELSE [target |-> [st.target EXCEPT ![st.bit] = ReadByte(info, klen, st.inf)],
        bit |-> st.bit + 1, fz |-> st.fz, inf |-> st.inf + 1,
        oob |-> st.oob \/ st.inf >= klen]

\* A counted loop is applied as its iterations lo .. hi-1 in increasing order.
\* The range is split in two and the state after the first part is computed
\* (Computed) before the second part starts, which keeps the evaluation flat.
Computed(st) == DOMAIN st = DOMAIN st

\* the iterations bit = lo .. hi-1 of the loop at line 82
RECURSIVE InterleaveLoop(_, _, _, _, _, _, _, _)
InterleaveLoop(st, mask, frozen, flen, info, klen, lo, hi) ==
  IF hi <= lo THEN st
  ELSE IF hi = lo + 1 THEN InterleaveStep(st, mask, frozen, flen, info, klen)
  ELSE LET mid == (lo + hi) \div 2
           first == InterleaveLoop(st, mask, frozen, flen, info, klen, lo, mid)
       IN IF Computed(first)
          THEN InterleaveLoop(first, mask, frozen, flen, info, klen, mid, hi)
          ELSE first

\* the target buffer after the call
interleave_frozen_and_info_bits(target, mask, frozen, flen, info, klen, size) ==
  InterleaveLoop([target |-> target, bit |-> 0, fz |-> 0, inf |-> 0, oob |-> FALSE],
                 mask, frozen, flen, info, klen, 0, size).target

IlvIdle ==
  /\ imask = <<>>
  /\ ifrozen = <<>>
  /\ iinfo = <<>>
  /\ itarget = <<>>
  /\ ibit = 0
  /\ ifz = 0
  /\ iinf = 0
  /\ ioob = FALSE
  /\ ipc = "idle"

\* every mask of every length 0..MaxLen with value streams of matching length;
\* target starts with arbitrary content
IlvInit ==
  /\ \E n \in 0..MaxLen :
       /\ imask \in Buffers(n, MaskBytes)
       /\ ifrozen \in Buffers(CountNonZero(imask, n), BitBytes)
       /\ iinfo \in Buffers(n - CountNonZero(imask, n), BitBytes)
       /\ itarget \in {[i \in 0..(n - 1) |-> g] : g \in {0, 255}}
  /\ ibit = 0
  /\ ifz = 0
  /\ iinf = 0
  /\ ioob = FALSE
  /\ ipc = "loop"

IlvLen == Cardinality(DOMAIN imask)
IlvFLen == Cardinality(DOMAIN ifrozen)
IlvKLen == Cardinality(DOMAIN iinfo)

IlvIterate ==
  /\ ipc = "loop"
  /\ ibit < IlvLen
  /\ LET st == InterleaveStep([target |-> itarget, bit |-> ibit, fz |-> ifz,
                               inf |-> iinf, oob |-> ioob],
                              imask, ifrozen, IlvFLen, iinfo, IlvKLen)
     IN /\ itarget' = st.target
        /\ ibit' = st.bit
        /\ ifz' = st.fz
        /\ iinf' = st.inf
        /\ ioob' = st.oob
  /\ UNCHANGED <<imask, ifrozen, iinfo, ipc, log2Vars, encVars>>

IlvExit ==
  /\ ipc = "loop"
  /\ ibit >= IlvLen
  /\ ipc' = "done"
  /\ UNCHANGED <<imask, ifrozen, iinfo, itarget, ibit, ifz, iinf, ioob, log2Vars, encVars>>

IlvNext == IlvIterate \/ IlvExit

---------------------------------------------------------------------------
(* Buffer accesses *)

\* what frame or temp may hold before the call, and what a read past the end of
\* a buffer may deliver
GarbageBytes == {0, 170}

\* the offsets of a buffer of n bytes
Offsets(n) == 0..(n - 1)

\* a read of buf[i]; past the end of buf it delivers the byte g
Rd(buf, i, g) == IF i \in DOMAIN buf THEN buf[i] ELSE g

\* a write of x to buf[i]; the cells of buf are the only ones the model keeps
Wr(buf, i, x) == IF i \in DOMAIN buf THEN [buf EXCEPT ![i] = x] ELSE buf

\* memcpy(temp, frame, frame_size)
memcpy(dst, src, n) == [i \in DOMAIN dst |-> IF i < n THEN src[i] ELSE dst[i]]

---------------------------------------------------------------------------
(* encodepolar_single_stage *)

\* a variant that combines with OR
CombineOr(x, y) == BitOr(x, y)

\* the combination of one pair: *temp_ptr ^ *(temp_ptr + 1)
Combine(x, y) == BitXor(x, y)

\* a variant that passes the first cell of the pair on: *(frame_ptr + frame_half) = *temp_ptr
SingleStageBitFirst(st, tmp, half) ==
  LET lo == Rd(tmp, st.tp, 0)
      hi == Rd(tmp, st.tp + 1, 0)
  IN [frame |-> Wr(Wr(st.frame, st.fp, BitXor(lo, hi)), st.fp + half, lo),
      fp |-> st.fp + 1,
      tp |-> st.tp + 2,
      wlog |-> st.wlog \o <<st.fp, st.fp + half>>,
      rlog |-> st.rlog \cup {st.tp, st.tp + 1}]

\* lines 94..97 on st = [frame, fp, tp, wlog, rlog]; fp and tp are the offsets
\* of frame_ptr and temp_ptr
SingleStageBit(st, tmp, half) ==
  LET lo == Rd(tmp, st.tp, 0)
      hi == Rd(tmp, st.tp + 1, 0)
  IN [frame |-> Wr(Wr(st.frame, st.fp, Combine(lo, hi)), st.fp + half, hi),
      fp |-> st.fp + 1,
      tp |-> st.tp + 2,
      wlog |-> st.wlog \o <<st.fp, st.fp + half>>,
      rlog |-> st.rlog \cup {st.tp, st.tp + 1}]

\* the iterations bit = lo .. hi-1 of the loop at line 93
RECURSIVE SingleStageBits(_, _, _, _, _)
SingleStageBits(st, tmp, half, lo, hi) ==
  IF hi <= lo THEN st
  ELSE IF hi = lo + 1 THEN SingleStageBit(st, tmp, half)
  ELSE LET mid == (lo + hi) \div 2
           first == SingleStageBits(st, tmp, half, lo, mid)
       IN IF Computed(first) THEN SingleStageBits(first, tmp, half, mid, hi) ELSE first

\* a variant that leaves frame_ptr where the inner loop left it
SkipNothing(st, half) == st

\* frame_ptr += frame_half;
SkipUpperHalf(st, half) == [st EXCEPT !.fp = st.fp + half]

\* the iterations branch = lo .. hi-1 of the loop at line 92
RECURSIVE SingleStageBranches(_, _, _, _, _)
SingleStageBranches(st, tmp, half, lo, hi) ==
  IF hi <= lo THEN st
  ELSE IF hi = lo + 1 THEN SkipUpperHalf(SingleStageBits(st, tmp, half, 0, half), half)
  ELSE LET mid == (lo + hi) \div 2
           first == SingleStageBranches(st, tmp, half, lo, mid)
       IN IF Computed(first) THEN SingleStageBranches(first, tmp, half, mid, hi) ELSE first

encodepolar_single_stage(frm, tmp, nb, half) ==
  SingleStageBranches([frame |-> frm, fp |-> 0, tp |-> 0, wlog |-> <<>>, rlog |-> {}],
                      tmp, half, 0, nb)

---------------------------------------------------------------------------
(* The caller: a plan of calls, each [impl, frame_size, mask, frozen, info, fill] *)

Len0(buf) == Cardinality(DOMAIN buf)

NoVec == [l \in 0..15 |-> 0]

\* the state before the first call of the plan p
EncStart(p) ==
  /\ plan = p
  /\ outs = <<>>
  /\ impl = "none"
  /\ frame_size = 0
  /\ frozen_bit_mask = <<>>
  /\ frozen_bits = <<>>
  /\ info_bits = <<>>
  /\ fill = 0
  /\ frame = <<>>
  /\ temp = <<>>
  /\ stage = 0
  /\ frame_half = 0
  /\ num_branches = 0
  /\ frame_ptr = 0
  /\ temp_ptr = 0
  /\ branch = 0
  /\ r_temp0 = NoVec
  /\ pc = "idle"
  /\ passes = 0
  /\ wlog = <<>>
  /\ rlog = {}

EncIdle == EncStart(<<>>)

\* the caller passes two buffers of frame_size bytes holding what they happen to hold
Call ==
  /\ pc \in {"idle", "done"}
  /\ plan # <<>>
  /\ LET c == Head(plan)
     IN /\ impl' = c.impl
        /\ frame_size' = c.frame_size
        /\ frozen_bit_mask' = c.mask
        /\ frozen_bits' = c.frozen
        /\ info_bits' = c.info
        /\ fill' = c.fill
        /\ frame' = [i \in Offsets(c.frame_size) |-> c.fill]
        /\ temp' = [i \in Offsets(c.frame_size) |-> c.fill]
  /\ plan' = Tail(plan)
  /\ pc' = "entry"
  /\ stage' = 0
  /\ frame_half' = 0
  /\ num_branches' = 0
  /\ frame_ptr' = 0
  /\ temp_ptr' = 0
  /\ branch' = 0
  /\ r_temp0' = NoVec
  /\ passes' = 0
  /\ wlog' = <<>>
  /\ rlog' = {}
  /\ UNCHANGED <<outs, log2Vars, ilvVars>>

\* what a completed call leaves to the caller
Result == [impl |-> impl, frame_size |-> frame_size, mask |-> frozen_bit_mask,
           frozen |-> frozen_bits, info |-> info_bits, fill |-> fill, frame |-> frame]

---------------------------------------------------------------------------
(* volk_8u_x3_encodepolar_8u_x2_generic *)

\* lines 127..129
GenEntry ==
  /\ impl = "generic"
  /\ pc = "entry"
  /\ stage' = log2_of_power_of_2(U32(frame_size))
  /\ frame_half' = frame_size \div 2
  /\ num_branches' = 1
  /\ pc' = "interleave"
  /\ UNCHANGED <<callVars, paramVars, frame, temp, frame_ptr, temp_ptr, branch, r_temp0,
                 ghostVars, log2Vars, ilvVars>>

\* line 132
GenInterleave ==
  /\ impl = "generic"
  /\ pc = "interleave"
  /\ temp' = interleave_frozen_and_info_bits(temp, frozen_bit_mask,
                                             frozen_bits, Len0(frozen_bits),
                                             info_bits, Len0(info_bits), frame_size)
  /\ pc' = "loop"
  /\ UNCHANGED <<callVars, paramVars, frame, stage, frame_half, num_branches, frame_ptr,
                 temp_ptr, branch, r_temp0, ghostVars, log2Vars, ilvVars>>

\* one iteration of the loop at line 134: lines 136..142
GenPass ==
  /\ impl = "generic"
  /\ pc = "loop"
  /\ stage # 0
  /\ LET st == encodepolar_single_stage(frame, temp, num_branches, frame_half)
     IN /\ frame' = st.frame
        /\ temp' = memcpy(temp, st.frame, frame_size)
        /\ wlog' = st.wlog
        /\ rlog' = st.rlog
  /\ num_branches' = num_branches * 2
  /\ frame_half' = frame_half \div 2
  /\ stage' = stage - 1
  /\ passes' = passes + 1
  /\ UNCHANGED <<callVars, paramVars, frame_ptr, temp_ptr, branch, r_temp0, pc,
                 log2Vars, ilvVars>>

\* the loop at line 134 ends and the function returns
GenReturn ==
  /\ impl = "generic"
  /\ pc = "loop"
  /\ stage = 0
  /\ pc' = "done"
  /\ outs' = Append(outs, Result)
  /\ UNCHANGED <<plan, paramVars, localVars, ghostVars, log2Vars, ilvVars>>

---------------------------------------------------------------------------
(* SSE registers: 16 byte lanes, lane 0 the lowest *)

Lanes == 0..15

\* _mm_set_epi8(e15, ..., e0): the arguments name the lanes from 15 down to 0
mm_set_epi8(t) == [l \in Lanes |-> t[16 - l]]

\* _mm_setr_epi8(e0, ..., e15)
mm_setr_epi8(t) == [l \in Lanes |-> t[l + 1]]

\* _mm_bsrli_si128(a, n): shift right by n bytes, shifting in zeros
mm_bsrli_si128(a, n) == [l \in Lanes |-> IF l + n <= 15 THEN a[l + n] ELSE 0]

mm_and_si128(a, c) == [l \in Lanes |-> BitAnd(a[l], c[l])]

mm_xor_si128(a, c) == [l \in Lanes |-> BitXor(a[l], c[l])]

\* _mm_shuffle_epi8(a, idx): lane l takes a[idx[l] & 15], or 0 when bit 7 of idx[l] is set
mm_shuffle_epi8(a, idx) == [l \in Lanes |-> IF idx[l] >= 128 THEN 0 ELSE a[idx[l] % 16]]

\* _mm_unpacklo_epi64(a, c): the low 8 lanes of a, then the low 8 lanes of c
mm_unpacklo_epi64(a, c) == [l \in Lanes |-> IF l < 8 THEN a[l] ELSE c[l - 8]]

\* _mm_unpackhi_epi64(a, c): the high 8 lanes of a, then the high 8 lanes of c
mm_unpackhi_epi64(a, c) == [l \in Lanes |-> IF l < 8 THEN a[l + 8] ELSE c[l]]

\* _mm_loadu_si128 / _mm_load_si128 of the 16 bytes at offset p of buf; the
\* bytes past the end of buf are g
mm_load_si128(buf, p, g) == [l \in Lanes |-> Rd(buf, p + l, g)]

\* _mm_storeu_si128 / _mm_store_si128 of r at offset p of buf
mm_store_si128(buf, p, r) ==
  [i \in DOMAIN buf |-> IF i >= p /\ i <= p + 15 THEN r[i - p] ELSE buf[i]]

\* the offsets a 16-byte access at offset p touches
Chunk(p) == p..(p + 15)
ChunkSeq(p) == [l \in 1..16 |-> p + l - 1]

\* an access lies inside a buffer of n bytes
InBounds(p, n) == p >= 0 /\ p + 15 <= n - 1

\* _mm_load_si128 and _mm_store_si128 (the _a_ variant) need a 16-byte aligned
\* address; frame and temp are 16-byte aligned there, so the offset decides
Misaligned(f, p) == f = "a_ssse3" /\ p % 16 # 0

mask_stage1 ==
  mm_set_epi8(<<0, 255, 0, 255, 0, 255, 0, 255, 0, 255, 0, 255, 0, 255, 0, 255>>)

shuffle_separate ==
  mm_setr_epi8(<<0, 2, 4, 6, 8, 10, 12, 14, 1, 3, 5, 7, 9, 11, 13, 15>>)

\* a variant that keeps the lanes in their natural order
shuffle_natural ==
  mm_setr_epi8(<<0, 1, 2, 3, 4, 5, 6, 7, 8, 9, 10, 11, 12, 13, 14, 15>>)

shuffle_stage4 ==
  mm_setr_epi8(<<0, 8, 4, 12, 2, 10, 6, 14, 1, 9, 5, 13, 3, 11, 7, 15>>)

mask_stage4 ==
  mm_set_epi8(<<0, 0, 0, 0, 0, 0, 0, 0, 255, 255, 255, 255, 255, 255, 255, 255>>)

mask_stage3 ==
  mm_set_epi8(<<0, 0, 0, 0, 255, 255, 255, 255, 0, 0, 0, 0, 255, 255, 255, 255>>)

mask_stage2 ==
  mm_set_epi8(<<0, 0, 255, 255, 0, 0, 255, 255, 0, 0, 255, 255, 0, 0, 255, 255>>)

\* shifted = bsrli(r, n); shifted = and(shifted, m); r = xor(shifted, r)
ShiftMaskXor(r, n, m) == mm_xor_si128(mm_and_si128(mm_bsrli_si128(r, n), m), r)

---------------------------------------------------------------------------
(* volk_8u_x3_encodepolar_8u_x2_u_ssse3 and _a_ssse3 *)

IsSsse3 == impl \in {"u_ssse3", "a_ssse3"}

\* lines 188..208 (314..334) on st = [frame, fp, tp, wlog, rlog, bad]; bad records
\* a misaligned access of the _a_ variant
CoarseChunk(st, tmp, half, f) ==
  LET t0 == mm_load_si128(tmp, st.tp, 0)
      t1 == mm_load_si128(tmp, st.tp + 16, 0)
      s0 == mm_shuffle_epi8(ShiftMaskXor(t0, 1, mask_stage1), shuffle_separate)
      s1 == mm_shuffle_epi8(ShiftMaskXor(t1, 1, mask_stage1), shuffle_separate)
      r_frame0 == mm_unpacklo_epi64(s0, s1)
      r_frame1 == mm_unpackhi_epi64(s0, s1)
  IN [frame |-> mm_store_si128(mm_store_si128(st.frame, st.fp, r_frame0),
                               st.fp + half, r_frame1),
      fp |-> st.fp + 16,
      tp |-> st.tp + 32,
      wlog |-> st.wlog \o ChunkSeq(st.fp) \o ChunkSeq(st.fp + half),
      rlog |-> st.rlog \cup Chunk(st.tp) \cup Chunk(st.tp + 16),
      bad |-> \/ st.bad
              \/ Misaligned(f, st.tp) \/ Misaligned(f, st.tp + 16)
              \/ Misaligned(f, st.fp) \/ Misaligned(f, st.fp + half)]

\* a variant that steps by the 32 cells an iteration consumes: bit += 32
CoarseTripsBy32(half) == (half + 31) \div 32

\* the loop at line 187 (313) runs for bit = 0, 16, 32, ... below frame_half
CoarseTrips(half) == (half + 15) \div 16

\* the iterations lo .. hi-1 of the loop at line 187 (313)
RECURSIVE CoarseBits(_, _, _, _, _, _)
CoarseBits(st, tmp, half, f, lo, hi) ==
  IF hi <= lo THEN st
  ELSE IF hi = lo + 1 THEN CoarseChunk(st, tmp, half, f)
  ELSE LET mid == (lo + hi) \div 2
           first == CoarseBits(st, tmp, half, f, lo, mid)
       IN IF Computed(first) THEN CoarseBits(first, tmp, half, f, mid, hi) ELSE first

\* the iterations branch = lo .. hi-1 of the loop at line 186 (312)
RECURSIVE CoarseBranches(_, _, _, _, _, _)
CoarseBranches(st, tmp, half, f, lo, hi) ==
  IF hi <= lo THEN st
  ELSE IF hi = lo + 1
       THEN SkipUpperHalf(CoarseBits(st, tmp, half, f, 0, CoarseTrips(half)), half)
  ELSE LET mid == (lo + hi) \div 2
           first == CoarseBranches(st, tmp, half, f, lo, mid)
       IN IF Computed(first) THEN CoarseBranches(first, tmp, half, f, mid, hi) ELSE first

\* lines 182..212 (308..338)
CoarseStage(frm, tmp, nb, half, f) ==
  CoarseBranches([frame |-> frm, fp |-> 0, tp |-> 0, wlog |-> <<>>, rlog |-> {},
                  bad |-> FALSE],
                 tmp, half, f, 0, nb)

\* lines 240..244 (366..370): the bit-reversal shuffle and the first reduction
FineFirst(r) == ShiftMaskXor(mm_shuffle_epi8(r, shuffle_stage4), 8, mask_stage4)

\* lines 250..260 (376..386): the three remaining reductions
FineRest(r) ==
  ShiftMaskXor(ShiftMaskXor(ShiftMaskXor(r, 4, mask_stage3), 2, mask_stage2),
               1, mask_stage1)

\* lines 157..166 (283..292)
VecEntry ==
  /\ IsSsse3
  /\ pc = "entry"
  /\ stage' = log2_of_power_of_2(U32(frame_size))
  /\ frame_ptr' = 0
  /\ temp_ptr' = 0
  /\ frame_half' = frame_size \div 2
  /\ num_branches' = 1
  /\ pc' = "interleave"
  /\ UNCHANGED <<callVars, paramVars, frame, temp, branch, r_temp0, ghostVars,
                 log2Vars, ilvVars>>

\* line 169 (295)
VecInterleave ==
  /\ IsSsse3
  /\ pc = "interleave"
  /\ temp' = interleave_frozen_and_info_bits(temp, frozen_bit_mask,
                                             frozen_bits, Len0(frozen_bits),
                                             info_bits, Len0(info_bits), frame_size)
  /\ pc' = "coarse"
  /\ UNCHANGED <<callVars, paramVars, frame, stage, frame_half, num_branches, frame_ptr,
                 temp_ptr, branch, r_temp0, ghostVars, log2Vars, ilvVars>>

\* one iteration of the loop at line 181 (307): lines 182..217 (308..343)
VecCoarsePass ==
  /\ IsSsse3
  /\ pc = "coarse"
  /\ stage > 4
  /\ LET st == CoarseStage(frame, temp, num_branches, frame_half, impl)
     IN /\ ~st.bad
        /\ frame' = st.frame
        /\ temp' = memcpy(temp, st.frame, frame_size)
        /\ frame_ptr' = st.fp
        /\ temp_ptr' = st.tp
        /\ wlog' = st.wlog
        /\ rlog' = st.rlog
  /\ branch' = num_branches
  /\ num_branches' = num_branches * 2
  /\ frame_half' = frame_half \div 2
  /\ stage' = stage - 1
  /\ passes' = passes + 1
  /\ UNCHANGED <<callVars, paramVars, r_temp0, pc, log2Vars, ilvVars>>

\* the loop at line 181 (307) ends; lines 225..231 (351..357) load the first chunk
VecFineSetup ==
  /\ IsSsse3
  /\ pc = "coarse"
  /\ stage <= 4
  /\ frame_ptr' = 0
  /\ r_temp0' = mm_load_si128(temp, 0, 0)
  /\ temp_ptr' = 16
  /\ branch' = 0
  /\ wlog' = <<>>
  /\ rlog' = Chunk(0)
  /\ pc' = "fine"
  /\ UNCHANGED <<callVars, paramVars, frame, temp, stage, frame_half, num_branches,
                 passes, log2Vars, ilvVars>>

\* one iteration of the loop at line 238 (364): lines 240..264 (366..390).  The
\* load of the next chunk at line 247 (373) delivers unspecified bytes for the
\* offsets past the end of temp.
VecFineChunk ==
  /\ IsSsse3
  /\ pc = "fine"
  /\ branch < num_branches
  /\ ~Misaligned(impl, temp_ptr)
  /\ ~Misaligned(impl, frame_ptr)
  /\ LET r_frame0 == FineRest(FineFirst(r_temp0))
     IN frame' = mm_store_si128(frame, frame_ptr, r_frame0)
  /\ \E g \in (IF InBounds(temp_ptr, frame_size) THEN {0} ELSE GarbageBytes) :
       r_temp0' = mm_load_si128(temp, temp_ptr, g)
  /\ rlog' = rlog \cup Chunk(temp_ptr)
  /\ wlog' = wlog \o ChunkSeq(frame_ptr)
  /\ temp_ptr' = temp_ptr + 16
  /\ frame_ptr' = frame_ptr + 16
  /\ branch' = branch + 1
  /\ UNCHANGED <<callVars, paramVars, temp, stage, frame_half, num_branches, pc,
                 passes, log2Vars, ilvVars>>

\* the load at line 247 (373) reads past the end of temp: where no memory is
\* mapped behind temp the call ends there, before the chunk is stored; so does a
\* misaligned access of the _a_ variant
VecFineFault ==
  /\ IsSsse3
  /\ pc = "fine"
  /\ branch < num_branches
  /\ \/ ~InBounds(temp_ptr, frame_size)
     \/ Misaligned(impl, temp_ptr)
     \/ Misaligned(impl, frame_ptr)
  /\ rlog' = rlog \cup Chunk(temp_ptr)
  /\ pc' = "fault"
  /\ UNCHANGED <<callVars, paramVars, localVars, passes, wlog, log2Vars, ilvVars>>

\* the loop at line 238 (364) ends and the function returns
VecReturn ==
  /\ IsSsse3
  /\ pc = "fine"
  /\ branch >= num_branches
  /\ pc' = "done"
  /\ outs' = Append(outs, Result)
  /\ UNCHANGED <<plan, paramVars, localVars, ghostVars, log2Vars, ilvVars>>

---------------------------------------------------------------------------
(* The inputs explored *)

\* frame sizes 2^lo .. 2^hi
Sizes(lo, hi) == {Pow2(k) : k \in lo..hi}

\* the vector with a single 1 at offset a (all-zero when a = n)
UnitVec(n, a) == [i \in Offsets(n) |-> IF i = a THEN 1 ELSE 0]

XorVec(x, y) == [i \in DOMAIN x |-> BitXor(x[i], y[i])]

RECURSIVE IsPow2(_)
IsPow2(d) == d = 1 \/ (d > 1 /\ d % 2 = 0 /\ IsPow2(d \div 2))

\* pairs of offsets a < c at a power-of-two distance, single offsets (c = n) and
\* no offset (a = c = n)
OffsetPairs(n) ==
  {p \in (0..n) \X (0..n) :
     \/ p[1] = n /\ p[2] = n
     \/ p[1] < n /\ p[2] = n
     \/ p[1] < p[2] /\ p[2] < n /\ IsPow2(p[2] - p[1])}

\* bit vectors of length n with at most two cells set
Sparse(n) == {XorVec(UnitVec(n, p[1]), UnitVec(n, p[2])) : p \in OffsetPairs(n)}

Ones(n) == [i \in Offsets(n) |-> 1]

\* bit vectors of length n with at most two cells cleared
Dense(n) == {XorVec(Ones(n), u) : u \in Sparse(n)}

Patterns(n) == Sparse(n) \cup Dense(n)

\* frozen-bit masks of length n: no frozen position, every odd position frozen
\* (0xFF), the first half frozen (0x01)
NoneFrozen(n) == [i \in Offsets(n) |-> 0]
OddFrozen(n) == [i \in Offsets(n) |-> IF i % 2 = 1 THEN 255 ELSE 0]
HalfFrozen(n) == [i \in Offsets(n) |-> IF 2 * i < n THEN 1 ELSE 0]

Masks(n) == {NoneFrozen(n), OddFrozen(n), HalfFrozen(n)}

\* the cells of u at the frozen (or the info) positions among 0..n-1, in order
Gather(mask, u, n, wantFrozen) ==
  LET cells == [i \in 1..n |-> <<mask[i - 1], u[i - 1]>>]
      kept == SelectSeq(cells, LAMBDA c : (c[1] # 0) = wantFrozen)
  IN [j \in 1..Len(kept) |-> kept[j][2]]

ZeroBased(s) == [j \in Offsets(Len(s)) |-> s[j + 1]]

\* the call whose interleaved vector is u under mask
MkCall(f, n, mask, u, g) ==
  [impl |-> f, frame_size |-> n, mask |-> mask,
   frozen |-> ZeroBased(Gather(mask, u, n, TRUE)),
   info |-> ZeroBased(Gather(mask, u, n, FALSE)),
   fill |-> g]

\* the scalar encoder called twice with the same inputs, on buffers that hold
\* arbitrary bytes
InitGeneric ==
  /\ Log2Idle
  /\ IlvIdle
  /\ \E n \in Sizes(0, MaxStage) :
       \E m \in Masks(n), u \in Patterns(n), g1 \in GarbageBytes, g2 \in GarbageBytes :
         EncStart(<<MkCall("generic", n, m, u, g1), MkCall("generic", n, m, u, g2)>>)

\* the scalar encoder called with no frozen position on infoA, on infoB and on
\* infoA XOR infoB
InitLinear ==
  /\ Log2Idle
  /\ IlvIdle
  /\ \E n \in Sizes(1, MaxStageLin) :
       \E m \in {NoneFrozen(n)}, infoA \in Patterns(n), infoB \in Sparse(n) :
         EncStart(<<MkCall("generic", n, m, infoA, 170),
                    MkCall("generic", n, m, infoB, 170),
                    MkCall("generic", n, m, XorVec(infoA, infoB), 170)>>)

\* the scalar encoder, then the two SSSE3 encoders, called with the same inputs
InitSsse3 ==
  /\ Log2Idle
  /\ IlvIdle
  /\ \E n \in Sizes(4, MaxStageVec) :
       \E m \in {OddFrozen(n), HalfFrozen(n)}, u \in Sparse(n) \cup {Ones(n)} :
         EncStart(<<MkCall("generic", n, m, u, 170),
                    MkCall("u_ssse3", n, m, u, 170),
                    MkCall("a_ssse3", n, m, u, 170)>>)

NextSsse3 ==
  \/ Call
  \/ GenEntry
  \/ GenInterleave
  \/ GenPass
  \/ GenReturn
  \/ VecEntry
  \/ VecInterleave
  \/ VecCoarsePass
  \/ VecFineSetup
  \/ VecFineChunk
  \/ VecFineFault
  \/ VecReturn

NextGeneric ==
  \/ Call
  \/ GenEntry
  \/ GenInterleave
  \/ GenPass
  \/ GenReturn

---------------------------------------------------------------------------
(* Specifications *)

InitLog2 == IlvIdle /\ EncIdle /\ Log2Init

SpecLog2 == InitLog2 /\ [][Log2Next]_vars

InitInterleave == Log2Idle /\ EncIdle /\ IlvInit

SpecInterleave == InitInterleave /\ [][IlvNext]_vars

SpecGeneric == InitGeneric /\ [][NextGeneric]_vars

SpecLinear == InitLinear /\ [][NextGeneric]_vars

SpecSsse3 == InitSsse3 /\ [][NextSsse3]_vars

---------------------------------------------------------------------------
(* The properties checked *)

\* the interleaved vector the inputs define: cell i takes the next unread
\* frozen value where mask[i] is nonzero and the next unread info value elsewhere
FrozenBefore(mask, i) == Cardinality({j \in 0..(i - 1) : mask[j] # 0})
InfoBefore(mask, i) == Cardinality({j \in 0..(i - 1) : mask[j] = 0})

Interleaved(mask, frozen, info, n) ==
  [i \in Offsets(n) |->
     IF mask[i] # 0 THEN frozen[FrozenBefore(mask, i)] ELSE info[InfoBefore(mask, i)]]

\* the XOR of the bytes v[k], k in S
RECURSIVE XorOver(_, _)
XorOver(v, S) ==
  IF S = {} THEN 0
  ELSE LET k == CHOOSE x \in S : TRUE IN BitXor(v[k], XorOver(v, S \ {k}))

\* the index k of n bits with its bits in reverse order
RECURSIVE BitRev(_, _)
BitRev(n, k) == IF n = 0 THEN 0 ELSE (k % 2) * Pow2(n - 1) + BitRev(n - 1, k \div 2)

\* the indices k of 0..size-1 whose binary representation contains every 1-bit of i
Covering(i, size) == {k \in Offsets(size) : BitAnd(k, i) = i}

\* u * B_N * F^(tensor n), with n = log2(size)
BitReversedTransform(u, n, size) ==
  [i \in Offsets(size) |-> XorOver([k \in Offsets(size) |-> u[BitRev(n, k)]], Covering(i, size))]

\* u * F^(tensor n)
NaturalTransform(u, size) == [i \in Offsets(size) |-> XorOver(u, Covering(i, size))]

\* the sequence s holds every offset of 0..n-1 exactly once
EachOnce(s, n) ==
  /\ Len(s) = n
  /\ \A i \in Offsets(n) : \E k \in 1..n : s[k] = i

SameInputs(r, q) ==
  /\ r.frame_size = q.frame_size
  /\ r.mask = q.mask
  /\ r.frozen = q.frozen
  /\ r.info = q.info

CurrentInterleaved == Interleaved(frozen_bit_mask, frozen_bits, info_bits, frame_size)

\* C1: with the same valid inputs and a power-of-two frame size N >= 16, every frame
\* an SSSE3 encoder (unaligned or aligned) returns equals, in all N cells, the frame
\* the scalar encoder returns; N = 16 runs no coarse pass.
C1_VectorEqualsScalar ==
  \A i \in 1..Len(outs), j \in 1..Len(outs) :
    (/\ outs[i].impl = "generic"
     /\ outs[j].impl \in {"u_ssse3", "a_ssse3"}
     /\ SameInputs(outs[i], outs[j]))
    => /\ outs[j].frame_size >= 16
       /\ DOMAIN outs[j].frame = Offsets(outs[j].frame_size)
       /\ outs[j].frame = outs[i].frame

\* both SSSE3 encoders have returned for N = 16, after no coarse pass, with a
\* codeword that is not all-zero
C1_Witness ==
  /\ Len(outs) = 3
  /\ outs[2].impl = "u_ssse3"
  /\ outs[3].impl = "a_ssse3"
  /\ frame_size = 16
  /\ passes = 0
  /\ \E i \in Offsets(16) : outs[3].frame[i] # 0
  /\ \E i \in Offsets(16) : outs[3].frame[i] = 0

\* C2: after every iteration of interleave the frozen cursor has advanced by the
\* number of nonzero mask cells passed and the info cursor by the number of zero
\* cells passed, no read went past the end of a stream, and every cell written
\* holds the next unread value of the stream its mask cell selects; at the end the
\* cursors stand at F and N - F.
C2_Interleave ==
  ipc \in {"loop", "done"} =>
    /\ ifz = FrozenBefore(imask, ibit)
    /\ iinf = InfoBefore(imask, ibit)
    /\ ifz + iinf = ibit
    /\ ~ioob
    /\ \A i \in 0..(ibit - 1) :
         itarget[i] = Interleaved(imask, ifrozen, iinfo, IlvLen)[i]
    /\ ipc = "done" =>
         /\ ibit = IlvLen
         /\ ifz = IlvFLen
         /\ iinf = IlvKLen

\* interleave has finished on a mask with frozen and info positions whose streams
\* start with different values
C2_Witness ==
  /\ ipc = "done"
  /\ IlvLen = 3
  /\ IlvFLen >= 1
  /\ IlvKLen >= 1
  /\ ifrozen[0] # iinfo[0]
  /\ imask[0] = 0
  /\ imask[1] # 0

\* C3: with frameSize = 1 the scalar encoder performs no pass and returns with
\* frame[0] equal to the single interleaved value, whatever frame[0] held before.
C3_FrameSizeOne ==
  (impl = "generic" /\ pc = "done" /\ frame_size = 1) =>
    /\ passes = 0
    /\ frame[0] = CurrentInterleaved[0]

\* C4: with no frozen position, whenever the info vector of one call is the XOR of
\* the info vectors of two others, its frame is the XOR of their frames (N >= 2).
C4_Linear ==
  \A i \in 1..Len(outs), j \in 1..Len(outs), k \in 1..Len(outs) :
    (/\ outs[i].frame_size >= 2
     /\ outs[i].frame_size = outs[j].frame_size
     /\ outs[i].frame_size = outs[k].frame_size
     /\ \A r \in {i, j, k} : \A c \in Offsets(outs[r].frame_size) : outs[r].mask[c] = 0
     /\ outs[k].info = XorVec(outs[i].info, outs[j].info))
    => outs[k].frame = XorVec(outs[i].frame, outs[j].frame)

\* the three calls have returned for N >= 4 with infoA, infoB and infoA XOR infoB
\* all different and not all-zero
C4_Witness ==
  /\ Len(outs) = 3
  /\ frame_size >= 4
  /\ outs[3].info = XorVec(outs[1].info, outs[2].info)
  /\ outs[1].info # outs[2].info
  /\ \E c \in Offsets(frame_size) : outs[1].info[c] = 1 /\ outs[2].info[c] = 1
  /\ \E c \in Offsets(frame_size) : outs[3].frame[c] # 0

\* C5: two calls of the scalar encoder with the same mask, frozen values, info
\* values and frame size return the same frame, whatever frame and temp held before.
C5_Deterministic ==
  \A i \in 1..Len(outs), j \in 1..Len(outs) :
    (outs[i].impl = outs[j].impl /\ SameInputs(outs[i], outs[j]))
    => outs[i].frame = outs[j].frame

\* C6: log2_of_power_of_2(2^k) = k for every k in 0..31.
C6_Log2 == lpc = "done" => lres = lk

\* the function has returned for the largest power of two
C6_Witness == lpc = "done" /\ lk = 31 /\ lval = <<32768, 0>>

\* C7: in the scalar encoder the passes done and the passes left add up to log2(N);
\* before every pass num_branches * 2 * frame_half = N, with frame_half = 1 before
\* the last one; every pass writes each frame offset of 0..N-1 exactly once and
\* reads each temp offset of 0..N-1, and nothing else; the loop ends after exactly
\* log2(N) passes.
C7_PassLoop ==
  (impl = "generic" /\ pc \in {"loop", "done"}) =>
    /\ Pow2(passes + stage) = frame_size
    /\ num_branches = Pow2(passes)
    /\ stage > 0 => num_branches * 2 * frame_half = frame_size
    /\ stage = 1 => frame_half = 1
    /\ passes > 0 => /\ EachOnce(wlog, frame_size)
                     /\ rlog = Offsets(frame_size)
    /\ pc = "done" => /\ stage = 0
                      /\ Pow2(passes) = frame_size

\* the scalar encoder has returned after four passes
C7_Witness ==
  /\ impl = "generic"
  /\ pc = "done"
  /\ passes = 4
  /\ frame_size = 16

\* C8: for N >= 2 the frame the scalar encoder returns is the bit-reversed
\* Kronecker-power transform of the interleaved vector u:
\* frame[i] = XOR of u[bitrev_n(k)] over the k in 0..N-1 with k AND i = i.
C8_BitReversedTransform ==
  (impl = "generic" /\ pc = "done" /\ frame_size >= 2) =>
    frame = BitReversedTransform(CurrentInterleaved, passes, frame_size)

\* the scalar encoder has returned a frame for N >= 4 that is not the
\* natural-order transform of the interleaved vector
C8_Witness ==
  /\ impl = "generic"
  /\ pc = "done"
  /\ frame_size >= 4
  /\ frame # NaturalTransform(CurrentInterleaved, frame_size)

\* C9: for N >= 16 and frame and temp of exactly N bytes, every load and store of
\* the SSSE3 encoders, the load of the next chunk in the fine tier included,
\* touches only the offsets 0..N-1 of temp and frame.
C9_AccessInBounds ==
  IsSsse3 =>
    /\ \A i \in rlog : i \in Offsets(frame_size)
    /\ \A k \in 1..Len(wlog) : wlog[k] \in Offsets(frame_size)

\* the k-th 32-cell group a coarse pass wrote: 16 consecutive offsets at p and
\* the 16 consecutive offsets at p + half
CoarseGroup(s, k, half) ==
  LET p == s[32 * k + 1]
  IN \A l \in 1..16 : /\ s[32 * k + l] = p + l - 1
                      /\ s[32 * k + 16 + l] = p + half + l - 1

\* C10: an SSSE3 encoder runs log2(N) - 4 coarse passes, each with frame_half >= 16,
\* each writing frame in groups of 16 cells at p and 16 cells at p + frame_half
\* from 32 temp cells, each followed by the copy of frame into temp; it enters the
\* fine tier with 4 passes left, frame_half = 8 and num_branches = N/16, and the
\* fine tier stores N/16 consecutive 16-byte chunks that cover frame[0..N-1] once.
C10_Tiers ==
  IsSsse3 =>
    /\ pc = "coarse" =>
         /\ Pow2(passes + stage) = frame_size
         /\ num_branches = Pow2(passes)
         /\ num_branches * 2 * frame_half = frame_size
         /\ stage > 4 => frame_half >= 16
         /\ passes > 0 =>
              /\ temp = frame
              /\ EachOnce(wlog, frame_size)
              /\ rlog = Offsets(frame_size)
              /\ \A k \in 0..((frame_size \div 32) - 1) : CoarseGroup(wlog, k, 2 * frame_half)
    /\ pc \in {"fine", "done"} =>
         /\ stage = 4
         /\ Pow2(passes + 4) = frame_size
         /\ frame_half = 8
         /\ num_branches * 16 = frame_size
         /\ branch <= num_branches
         /\ wlog = [k \in 1..(16 * branch) |-> k - 1]
    /\ pc = "done" =>
         /\ branch * 16 = frame_size
         /\ wlog = [k \in 1..frame_size |-> k - 1]

\* an SSSE3 encoder has returned for N = 64 after two coarse passes and four fine chunks
C10_Witness ==
  /\ IsSsse3
  /\ pc = "done"
  /\ frame_size = 64
  /\ passes = 2
  /\ branch = 4

===========================================================================
